---- MODULE Spec2Model ----
(***************************************************************************)
(* Model of the generated storefront client (api_service.dart): the        *)
(* session-local stores (CartManager, WishlistManager, search query and    *)
(* per-product quantity selections), the two configuration loaders         *)
(* (loadDynamicProductData and _HomePageState._loadDynamicAppConfig) and   *)
(* the DynamicAppSync realtime channel that triggers refetches, the        *)
(* realtime socket of ApiService, AdminManager, and the cart route of the  *)
(* backend (server.js).                                                    *)
(*                                                                         *)
(* Amounts are integers in cents.  Strings that the code inspects          *)
(* character by character (product names, the search query) are sequences  *)
(* of one-character strings.                                               *)
(***************************************************************************)
EXTENDS Integers, Sequences, FiniteSets, TLC

VARIABLES
    \* ---- CartManager / WishlistManager (session-local state) ----
    cart,                 \* CartManager._items : Seq of CartItem
    wishlist,             \* WishlistManager._items : Seq of WishlistItem
    cartOutcome,          \* outcome of the last CartManager call: "ok" | "StateError"
    cartNotificationCount,\* _HomePageState._cartNotificationCount
    gstPercentage,        \* CartManager._gstPercentage
    lastCartCall,         \* the last CartManager call and whether its id had a line ("none" before the first)
    \* ---- _HomePageState ----
    searchQuery,          \* _searchQuery
    productQuantities,    \* _productQuantities : id -> selected quantity (0 = no entry)
    hpStarted,            \* _HomePageState.initState has run
    hpIsLoading,          \* _HomePageState._isLoading
    homeWidgets,          \* _homeWidgets
    dynamicProductCards,  \* _dynamicProductCards
    filteredProducts,     \* _filteredProducts
    dynamicStoreInfo,     \* _dynamicStoreInfo
    dynamicDesignSettings,\* _dynamicDesignSettings
    pageBackgroundColor,  \* _pageBackgroundColor
    \* ---- top-level state of the generated main file ----
    started,              \* the top-level initState has run
    productCards,         \* top-level productCards
    isLoading,            \* top-level isLoading
    errorMessage,         \* top-level errorMessage ("null" when unset)
    \* ---- DynamicAppSync ----
    appSocket,            \* _socket: "null" | "connecting" | "connected" | "disconnected"
    appIsConnected,       \* _isConnected
    subscribed,           \* _updateSubscription listens on _appSync.updates
    updatesClosed,        \* _updateController.isClosed
    appAdminId,           \* DynamicAppSync._adminId ("null" when unset)
    appSent,              \* messages emitted on _socket over its current connection (or buffered for it)
    appReconnected,       \* _socket has connected again after a transport drop
    appOrphans,           \* states of the sockets DynamicAppSync created and no longer refers to
    \* ---- ApiService realtime socket ----
    apiSocket,            \* _socket: "null" | "connecting" | "connected" | "disconnected"
    apiIsConnected,       \* _isConnected
    apiAdminId,           \* adminId captured by the listeners of _socket
    apiSent,              \* messages emitted on _socket over its current connection
    apiReconnected,       \* _socket has connected again after a transport drop
    apiReplaced,          \* initializeRealTimeUpdates has closed a socket and put a new one in its place
    apiPending,           \* adminIds of the reconnectRealTimeUpdates calls waiting out their delay
    \* ---- AdminManager ----
    currentAdminId,       \* AdminManager._currentAdminId ("null" when unset)
    adminResult,          \* outcome of the last AdminManager call ("none" before the first)
    \* ---- backend (server.js), one user document ----
    srvCart,              \* user.cart as stored
    srvVersion,           \* the document's version key __v
    srvHandlers,          \* POST /api/users/:id/cart handlers between findById and save
    srvOrders,            \* user.orders as stored
    srvOrderHandlers,     \* POST /api/users/:id/orders handlers between findById and save
    srvResponse,          \* the last answer of POST /api/users/:id/orders
    \* ---- calls of helper functions ----
    priceCall,            \* the last PriceUtils.parsePrice call: its argument and its result
    subscriptionCall,     \* the last ApiService.hasActiveSubscription call: what it read, its result
    \* ---- ApiService authentication (SharedPreferences) ----
    authToken,            \* prefs 'auth_token' ("null" when absent)
    authUserId,           \* prefs 'user_id' ("null" when absent)
    authPending,          \* login/register/logout calls between their two writes
    authOutcome,          \* the last login/register/logout that returned or threw
    lastAuthEvent,        \* the last call that succeeded: "none" | "login" | "logout"
    requestsSent,         \* requests sent by the authenticated get/post/put/delete
    \* ---- requests in flight and bookkeeping of the run ----
    fetches,              \* GET /api/get-form requests awaiting their response
    nextSeq,              \* initiation number given to the next request
    homeSeq,              \* initiation number of the request whose document the home page holds (0: none)
    prodSeq,              \* initiation number of the request whose products productCards holds (0: none)
    lastEvent             \* kind of the last event the socket received ("none" before the first)

authVars == <<authToken, authUserId, authPending, authOutcome, lastAuthEvent, requestsSent>>
\* the state the actions of the pages, sockets and backend leave alone
helperVars == <<priceCall, subscriptionCall, authVars>>
localVars == <<cart, wishlist, cartOutcome, cartNotificationCount, gstPercentage,
               lastCartCall>>
sessionVars == <<cart, wishlist, searchQuery, productQuantities>>
homeConfigVars == <<homeWidgets, dynamicProductCards, filteredProducts,
                    dynamicStoreInfo, dynamicDesignSettings, pageBackgroundColor>>
homeVars == <<searchQuery, productQuantities, hpStarted, hpIsLoading, homeWidgets,
              dynamicProductCards, filteredProducts, dynamicStoreInfo,
              dynamicDesignSettings, pageBackgroundColor>>
globalVars == <<started, productCards, isLoading, errorMessage>>
syncVars == <<appSocket, appIsConnected, subscribed, updatesClosed, appAdminId, appSent,
              appReconnected, appOrphans>>
apiVars == <<apiSocket, apiIsConnected, apiAdminId, apiSent, apiReconnected, apiReplaced,
            apiPending>>
adminVars == <<currentAdminId, adminResult>>
serverVars == <<srvCart, srvVersion, srvHandlers, srvOrders, srvOrderHandlers, srvResponse>>
netVars == <<fetches, nextSeq, homeSeq, prodSeq, lastEvent>>
clientVarsButHelpers == <<localVars, homeVars, globalVars, syncVars, apiVars, adminVars,
                          netVars>>
clientVars == <<localVars, homeVars, globalVars, syncVars, apiVars, adminVars, netVars,
                helperVars>>
nonLocalVars == <<searchQuery, productQuantities, hpStarted, hpIsLoading, homeWidgets,
                  dynamicProductCards, filteredProducts, dynamicStoreInfo,
                  dynamicDesignSettings, pageBackgroundColor,
                  started, productCards, isLoading, errorMessage,
                  appSocket, appIsConnected, subscribed, updatesClosed, appAdminId, appSent,
                  appReconnected, appOrphans,
                  apiSocket, apiIsConnected, apiAdminId, apiSent, apiReconnected, apiReplaced,
                  apiPending, currentAdminId, adminResult,
                  srvCart, srvVersion, srvHandlers, srvOrders, srvOrderHandlers, srvResponse,
                  fetches, nextSeq, homeSeq, prodSeq, lastEvent, helperVars>>

vars == <<cart, wishlist, cartOutcome, cartNotificationCount, gstPercentage,
          lastCartCall,
          searchQuery, productQuantities, hpStarted, hpIsLoading, homeWidgets,
          dynamicProductCards, filteredProducts, dynamicStoreInfo,
          dynamicDesignSettings, pageBackgroundColor,
          started, productCards, isLoading, errorMessage,
          appSocket, appIsConnected, subscribed, updatesClosed, appAdminId, appSent,
          appReconnected, appOrphans,
          apiSocket, apiIsConnected, apiAdminId, apiSent, apiReconnected, apiReplaced,
          apiPending, currentAdminId, adminResult,
          srvCart, srvVersion, srvHandlers, srvOrders, srvOrderHandlers, srvResponse,
          fetches, nextSeq, homeSeq, prodSeq, lastEvent, helperVars>>

(***************************************************************************)
(* Bounds of the model.                                                    *)
(***************************************************************************)
\* largest aggregate cart quantity the cart actions are explored up to
MaxCartTotal == 12
\* largest quantity one CartManager.addItem call adds
MaxAddQty == 2
\* largest value of the cart badge counter that is explored
MaxBadge == 1
\* number of GET /api/get-form requests issued in one run
MaxFetches == 3
\* aggregate cart quantity explored while the configuration is being synchronised
MaxSyncCartTotal == 1
\* largest per-product quantity selection that is explored
MaxSelectQty == 2
\* number of sockets DynamicAppSync may leave behind without closing them
MaxOrphans == 1
\* number of reconnectRealTimeUpdates calls that wait out their delay at a time
MaxPendingReconnects == 1
\* POST /api/users/:id/orders requests that find the user
MaxSrvOrders == 1
\* login/register/logout calls of ApiService in flight at once
MaxAuthPending == 1
\* requests the authenticated get/post/put/delete send
MaxRequests == 2
\* aggregate quantity of the carts built from items of any price
MaxPricedTotal == 2
\* subscriptions in one /api/user-subscriptions response
MaxSubscriptions == 2
\* length of the price strings handed to PriceUtils.parsePrice
MaxPriceLen == 3
\* largest quantity one POST /api/users/:id/cart asks for
MaxSrvQty == 1
\* largest aggregate quantity, stored or asked for, the backend cart is explored up to
MaxSrvTotal == 3

(***************************************************************************)
(* Program constants.                                                      *)
(***************************************************************************)
\* "Only have 10 products allowed": the limit tested by the cart page and by
\* the quantity selector of a product card
CartCap == 10

\* CartManager._gstPercentage = 18.0 ("Default GST percentage")
DefaultGstPercentage == 18

\* the rate written into CartManager.totalWithTax ("8% tax")
TotalWithTaxRate == 8

\* ApiConfig.adminObjectId, the tenant id embedded at publish time
AdminObjectId == "695b5a25b24bc8867b77f3df"

(***************************************************************************)
(* Data of the session-local stores.                                       *)
(***************************************************************************)
\* ids given to product cards by _buildProductCard ('product_' + index)
ProductIds == {"product_0", "product_1"}

\* price fields (cents) a CartItem / WishlistItem of each product is built with
ItemFields ==
    { [id |-> "product_0", price |-> 1000, discountPrice |-> 0],
      [id |-> "product_1", price |-> 2000, discountPrice |-> 1500] }

\* class CartItem: id, price, discountPrice, quantity (name and image are
\* carried for display only and never read by the managers)
CartItem(fields, quantity) ==
    [id |-> fields.id, price |-> fields.price,
     discountPrice |-> fields.discountPrice, quantity |-> quantity]

\* class WishlistItem: id, price, discountPrice
WishlistItem(fields) ==
    [id |-> fields.id, price |-> fields.price, discountPrice |-> fields.discountPrice]

\* the CartItems handed to CartManager.addItem
CartItemInputs == { CartItem(f, q) : f \in ItemFields, q \in 1..MaxAddQty }

\* CartItems of any price and discount price that are not negative, in cents
PricedItemInputs ==
    { CartItem([id |-> id, price |-> price, discountPrice |-> discountPrice], 1) :
        id \in ProductIds, price \in {0, 1000},
        discountPrice \in {0, 500, 1500} }

\* the quantities handed to CartManager.updateQuantity
QuantityInputs == (0 - 1)..(CartCap + 1)

RECURSIVE SumQuantity(_)
SumQuantity(items) ==
    IF items = <<>> THEN 0 ELSE Head(items).quantity + SumQuantity(Tail(items))

\* CartManager.totalQuantity, read by the cart page's '+' button; the getter is
\* not defined in the source: the aggregate quantity over all cart lines
TotalQuantity(items) == SumQuantity(items)

\* List.indexWhere((i) => i.id == id), 1-based; 0 when there is none
IndexWhere(items, id) ==
    IF \E i \in 1..Len(items) : items[i].id = id
    THEN CHOOSE i \in 1..Len(items) :
            /\ items[i].id = id
            /\ \A j \in 1..(i - 1) : items[j].id /= id
    ELSE 0

\* List.removeWhere((item) => item.id == id)
RemoveWhere(items, id) == SelectSeq(items, LAMBDA it : it.id /= id)

(***************************************************************************)
(* CartManager                                                             *)
(***************************************************************************)
\* CartManager.addItem
CartAddItem(items, item) ==
    LET existingIndex == IndexWhere(items, item.id) IN
    IF existingIndex >= 1
    THEN [items EXCEPT ![existingIndex].quantity = @ + item.quantity]
    ELSE Append(items, item)

\* a removeItem that drops the first line whatever its id
CartRemoveFirstLine(items, id) == IF items = <<>> THEN <<>> ELSE Tail(items)

\* CartManager.removeItem
CartRemoveItem(items, id) == RemoveWhere(items, id)

\* CartManager.updateQuantity, when firstWhere finds a line
CartUpdateQuantity(items, id, quantity) ==
    [items EXCEPT ![IndexWhere(items, id)].quantity = quantity]

\* CartManager.clear / clearCart
CartClear(items) == <<>>

\* an effective price that ignores the discount price
EffectivePriceUndiscounted(item) == item.price

\* CartItem.effectivePrice
EffectivePrice(item) == IF item.discountPrice > 0 THEN item.discountPrice ELSE item.price

\* CartItem.totalPrice
TotalPrice(item) == EffectivePrice(item) * item.quantity

\* CartManager.subtotal: _items.fold(0.0, (sum, item) => sum + item.totalPrice)
RECURSIVE FoldTotalPrice(_, _)
FoldTotalPrice(sum, items) ==
    IF items = <<>> THEN sum
    ELSE FoldTotalPrice(sum + TotalPrice(Head(items)), Tail(items))

Subtotal(items) == FoldTotalPrice(0, items)

\* CartManager.totalDiscount: fold of (price - effectivePrice) * quantity
RECURSIVE FoldDiscount(_, _)
FoldDiscount(sum, items) ==
    IF items = <<>> THEN sum
    ELSE FoldDiscount(sum + ((Head(items).price - EffectivePrice(Head(items)))
                               * Head(items).quantity),
                      Tail(items))

TotalDiscount(items) == FoldDiscount(0, items)

\* PriceUtils.calculateTax: subtotal * (taxRate / 100).  The prices of the model
\* are whole multiples of 100 cents, so the division is exact
CalculateTax(subtotal, taxRate) == (subtotal * taxRate) \div 100

\* CartManager.totalWithTax
TotalWithTax(items) == Subtotal(items) + CalculateTax(Subtotal(items), TotalWithTaxRate)

\* CartManager.gstAmount
GstAmount(items, percentage) == CalculateTax(Subtotal(items), percentage)

\* CartManager.finalTotal
FinalTotal(items, percentage) == Subtotal(items) + GstAmount(items, percentage)

(***************************************************************************)
(* WishlistManager                                                         *)
(***************************************************************************)
\* WishlistManager.isInWishlist
IsInWishlist(items, id) == \E i \in 1..Len(items) : items[i].id = id

\* an addItem that appends without looking for the id
WishlistAddItemAlways(items, item) == Append(items, item)

\* WishlistManager.addItem
WishlistAddItem(items, item) ==
    IF ~(\E i \in 1..Len(items) : items[i].id = item.id)
    THEN Append(items, item)
    ELSE items

\* a removeItem whose test is inverted: it keeps the entry and drops the others
WishlistRemoveItemInverted(items, id) == SelectSeq(items, LAMBDA it : it.id = id)

\* WishlistManager.removeItem
WishlistRemoveItem(items, id) == RemoveWhere(items, id)

\* WishlistManager.clear / clearWishlist / clearCart
WishlistClear(items) == <<>>

\* toggleWishlist(productId, fields): add if absent, remove if present
ToggleWishlist(items, item) ==
    IF IsInWishlist(items, item.id)
    THEN WishlistRemoveItem(items, item.id)
    ELSE WishlistAddItem(items, item)

\* the set of product ids in a wishlist (its membership)
Members(items) == { items[i].id : i \in 1..Len(items) }

\* a CartManager call as remembered in lastCartCall: the method, and whether a
\* line with the id it was given existed when it was called
CartCall(op, hit) == [op |-> op, hit |-> hit]

\* the percentages handed to CartManager.updateGSTPercentage
GstInputs == {5, DefaultGstPercentage}

(***************************************************************************)
(* Actions on the session-local stores.  maxTotal bounds the aggregate     *)
(* quantity up to which a specification explores the cart.                 *)
(***************************************************************************)
\* a call of CartManager.addItem(item)
AddItem(item, maxTotal) ==
    /\ TotalQuantity(cart) + item.quantity <= maxTotal
    /\ cart' = CartAddItem(cart, item)
    /\ cartOutcome' = "ok"
    /\ lastCartCall' = CartCall("addItem", IndexWhere(cart, item.id) /= 0)
    /\ UNCHANGED <<wishlist, cartNotificationCount, gstPercentage>>
    /\ UNCHANGED nonLocalVars

\* a call of CartManager.removeItem(id)
RemoveItem(id) ==
    /\ cart' = CartRemoveItem(cart, id)
    /\ cartOutcome' = "ok"
    /\ lastCartCall' = CartCall("removeItem", IndexWhere(cart, id) /= 0)
    /\ UNCHANGED <<wishlist, cartNotificationCount, gstPercentage>>
    /\ UNCHANGED nonLocalVars

\* a call of CartManager.updateQuantity(id, quantity); firstWhere without
\* orElse throws StateError when no line has the id
UpdateQuantity(id, quantity, maxTotal) ==
    /\ IF IndexWhere(cart, id) = 0
       THEN /\ cartOutcome' = "StateError"
            /\ cart' = cart
       ELSE /\ TotalQuantity(CartUpdateQuantity(cart, id, quantity)) <= maxTotal
            /\ cart' = CartUpdateQuantity(cart, id, quantity)
            /\ cartOutcome' = "ok"
    /\ lastCartCall' = CartCall("updateQuantity", IndexWhere(cart, id) /= 0)
    /\ UNCHANGED <<wishlist, cartNotificationCount, gstPercentage>>
    /\ UNCHANGED nonLocalVars

\* a call of CartManager.clear() or clearCart()
ClearCart ==
    /\ cart' = CartClear(cart)
    /\ cartOutcome' = "ok"
    /\ lastCartCall' = CartCall("clear", FALSE)
    /\ UNCHANGED <<wishlist, cartNotificationCount, gstPercentage>>
    /\ UNCHANGED nonLocalVars

\* a call of CartManager.updateGSTPercentage(percentage)
UpdateGSTPercentage(percentage) ==
    /\ gstPercentage' = percentage
    /\ UNCHANGED <<cart, wishlist, cartOutcome, cartNotificationCount, lastCartCall>>
    /\ UNCHANGED nonLocalVars

\* cart page, '+' button of line i
CartIncrease(i) ==
    /\ i \in 1..Len(cart)
    /\ IF TotalQuantity(cart) < CartCap
       THEN cart' = CartUpdateQuantity(cart, cart[i].id, cart[i].quantity + 1)
       ELSE cart' = cart
    /\ cartOutcome' = "ok"
    /\ lastCartCall' = IF TotalQuantity(cart) < CartCap
                       THEN CartCall("updateQuantity", TRUE) ELSE lastCartCall
    /\ UNCHANGED <<wishlist, cartNotificationCount, gstPercentage>>
    /\ UNCHANGED nonLocalVars

\* cart page, '-' button of line i
CartDecrease(i) ==
    /\ i \in 1..Len(cart)
    /\ IF cart[i].quantity > 1
       THEN cart' = CartUpdateQuantity(cart, cart[i].id, cart[i].quantity - 1)
       ELSE cart' = CartRemoveItem(cart, cart[i].id)
    /\ cartOutcome' = "ok"
    /\ lastCartCall' = IF cart[i].quantity > 1
                       THEN CartCall("updateQuantity", TRUE)
                       ELSE CartCall("removeItem", TRUE)
    /\ UNCHANGED <<wishlist, cartNotificationCount, gstPercentage>>
    /\ UNCHANGED nonLocalVars

\* wishlist page, cart button of entry i: CartItem with the default quantity 1
WishlistMoveToCart(i, maxTotal) ==
    /\ i \in 1..Len(wishlist)
    /\ TotalQuantity(cart) + 1 <= maxTotal
    /\ cartNotificationCount < MaxBadge
    /\ cart' = CartAddItem(cart, CartItem(wishlist[i], 1))
    /\ cartNotificationCount' = cartNotificationCount + 1
    /\ cartOutcome' = "ok"
    /\ lastCartCall' = CartCall("addItem", IndexWhere(cart, wishlist[i].id) /= 0)
    /\ UNCHANGED <<wishlist, gstPercentage>>
    /\ UNCHANGED nonLocalVars

\* bottom navigation, Cart tab: _onItemTapped(1) clears the cart badge
OpenCartTab ==
    /\ cartNotificationCount > 0
    /\ cartNotificationCount' = 0
    /\ UNCHANGED <<cart, wishlist, cartOutcome, gstPercentage, lastCartCall>>
    /\ UNCHANGED nonLocalVars

\* a call of WishlistManager.addItem(item)
WishlistAdd(fields) ==
    /\ wishlist' = WishlistAddItem(wishlist, WishlistItem(fields))
    /\ UNCHANGED <<cart, cartOutcome, cartNotificationCount, gstPercentage, lastCartCall>>
    /\ UNCHANGED nonLocalVars

\* a call of WishlistManager.removeItem(id) (also the wishlist page's delete button)
WishlistRemove(id) ==
    /\ wishlist' = WishlistRemoveItem(wishlist, id)
    /\ UNCHANGED <<cart, cartOutcome, cartNotificationCount, gstPercentage, lastCartCall>>
    /\ UNCHANGED nonLocalVars

\* a call of WishlistManager.clear(), clearWishlist() or clearCart()
WishlistClearAll ==
    /\ wishlist' = WishlistClear(wishlist)
    /\ UNCHANGED <<cart, cartOutcome, cartNotificationCount, gstPercentage, lastCartCall>>
    /\ UNCHANGED nonLocalVars

\* a toggle of the wishlist entry of one product
WishlistToggle(fields) ==
    /\ wishlist' = ToggleWishlist(wishlist, WishlistItem(fields))
    /\ UNCHANGED <<cart, cartOutcome, cartNotificationCount, gstPercentage, lastCartCall>>
    /\ UNCHANGED nonLocalVars

(***************************************************************************)
(* Configuration documents served by GET /api/get-form.                    *)
(***************************************************************************)
\* String.toLowerCase, one character at a time
LowerChar(c) ==
    CASE c = "M" -> "m"
      [] c = "L" -> "l"
      [] OTHER -> c

ToLowerCase(str) == [i \in 1..Len(str) |-> LowerChar(str[i])]

\* String.contains
Contains(str, part) ==
    \E i \in 0..(Len(str) - Len(part)) : SubSeq(str, i + 1, i + Len(part)) = part

\* product cards: productName, price and discountPrice as raw strings
Mug == [productName |-> <<"M", "u", "g">>, price |-> <<"9">>, discountPrice |-> <<>>]
Lamp == [productName |-> <<"L", "a", "m", "p">>, price |-> <<"2", "5">>, discountPrice |-> <<"1", "9">>]
Pen == [productName |-> <<"p", "e", "n">>, price |-> <<"2">>, discountPrice |-> <<>>]

\* a widget of a page: its name and, when its properties hold one, its productCards list
Widget(name, hasProductCards, cards) ==
    [name |-> name, hasProductCards |-> hasProductCards, productCards |-> cards]

\* a page: its widgets and its properties' backgroundColor ("null" when absent)
Page(widgets, backgroundColor) ==
    [widgets |-> widgets, backgroundColor |-> backgroundColor]

\* header second, products on the first page and on a second page
DocA ==
    [hasPages |-> TRUE,
     pages |-> << Page(<< Widget("HeroBannerWidget", FALSE, <<>>),
                          Widget("HeaderWidget", FALSE, <<>>),
                          Widget("ProductGridWidget", TRUE, <<Mug, Lamp>>) >>, "#FFEEDD"),
                  Page(<< Widget("ImageSliderWidget", TRUE, <<Pen>>) >>, "null") >>,
     storeInfo |-> "storeA", designSettings |-> "designA"]

\* a first page without any product card
DocB ==
    [hasPages |-> TRUE,
     pages |-> << Page(<< Widget("HeaderWidget", FALSE, <<>>),
                          Widget("StoreInfoWidget", FALSE, <<>>) >>, "null") >>,
     storeInfo |-> "storeB", designSettings |-> "designB"]

\* success: true without a pages list
DocNoPages ==
    [hasPages |-> FALSE, pages |-> <<>>, storeInfo |-> "storeC", designSettings |-> "designC"]

Docs == {DocA, DocB, DocNoPages}

\* what http.get(...) gives: thrown (a network error), or a status code and a body
NetworkError == [thrown |-> TRUE, statusCode |-> 0, success |-> FALSE, doc |-> DocNoPages]
ServerError == [thrown |-> FALSE, statusCode |-> 500, success |-> FALSE, doc |-> DocNoPages]
NotSuccess == [thrown |-> FALSE, statusCode |-> 200, success |-> FALSE, doc |-> DocNoPages]
Ok(doc) == [thrown |-> FALSE, statusCode |-> 200, success |-> TRUE, doc |-> doc]

FailureResponses == {NetworkError, ServerError, NotSuccess}
Responses == FailureResponses \cup { Ok(d) : d \in Docs }

RECURSIVE Concat(_)
\* the concatenation of a sequence of sequences (repeated List.addAll)
Concat(seqs) == IF seqs = <<>> THEN <<>> ELSE Head(seqs) \o Concat(Tail(seqs))

(***************************************************************************)
(* _HomePageState._loadDynamicAppConfig: what it extracts from a document  *)
(***************************************************************************)
\* pages = data['pages'] is List ? List.from(data['pages']) : []
PagesOf(doc) == IF doc.hasPages THEN doc.pages ELSE <<>>

\* extractedWidgets: the widgets of the first page
ExtractedWidgets(doc) ==
    IF PagesOf(doc) /= <<>> THEN PagesOf(doc)[1].widgets ELSE <<>>

ProductWidgetNames == {"ProductGridWidget", "Catalog View Card", "Product Detail Card"}

\* extractedProducts: the productCards of the product widgets of the first page
ExtractedProducts(doc) ==
    LET ws == ExtractedWidgets(doc) IN
    Concat([i \in 1..Len(ws) |->
              IF ws[i].name \in ProductWidgetNames /\ ws[i].hasProductCards
              THEN ws[i].productCards ELSE <<>>])

\* extractedWidgets.sort(...): HeaderWidget first, the others in their order
\* (List.sort is an insertion sort on lists this short)
SortHeaderFirst(ws) ==
    SelectSeq(ws, LAMBDA w : w.name = "HeaderWidget")
      \o SelectSeq(ws, LAMBDA w : w.name /= "HeaderWidget")

\* _colorFromHex: Colors.blue for a null or malformed value
ColorFromHex(hex) == IF hex = "null" THEN "blue" ELSE hex

\* pageProps['backgroundColor'] of the first page
PageBackground(doc) ==
    IF PagesOf(doc) /= <<>> THEN PagesOf(doc)[1].backgroundColor ELSE "null"

\* the products a query selects (_filterProducts)
FilterList(query, products) ==
    IF query = <<>>
    THEN products
    ELSE SelectSeq(products, LAMBDA product :
            \/ Contains(ToLowerCase(product.productName), ToLowerCase(query))
            \/ Contains(ToLowerCase(product.price), ToLowerCase(query))
            \/ Contains(ToLowerCase(product.discountPrice), ToLowerCase(query)))

\* the query _filterProducts stores
FilterQuery(query) == query

\* a reload that clears the filter instead of re-applying it
ReappliedQueryCleared(current) == <<>>

\* the query _loadDynamicAppConfig re-applies: _filterProducts(_searchQuery)
ReappliedQuery(current) == current

(***************************************************************************)
(* loadDynamicProductData: the products of all widgets of all pages        *)
(***************************************************************************)
PageProducts(page) ==
    Concat([i \in 1..Len(page.widgets) |->
              IF page.widgets[i].hasProductCards
              THEN page.widgets[i].productCards ELSE <<>>])

NewProducts(doc) == Concat([i \in 1..Len(doc.pages) |-> PageProducts(doc.pages[i])])

\* the response passes `statusCode == 200`, `success == true && pages != null`
ProductDataAccepted(resp) ==
    /\ ~resp.thrown
    /\ resp.statusCode = 200
    /\ resp.success /\ resp.doc.hasPages

\* the response passes `statusCode == 200` and `success == true`
AppConfigAccepted(resp) ==
    /\ ~resp.thrown
    /\ resp.statusCode = 200
    /\ resp.success

(***************************************************************************)
(* Realtime events and the DynamicAppSync listeners                        *)
(***************************************************************************)
\* the event kinds after which the configuration is to be fetched again
RefetchKinds ==
    {"dynamic-update", "home-page", "configuration-update", "admin-specific-update",
     "splash-screen", "app-info", "test-update"}

\* the event kinds the server is taken to emit
EventKinds == RefetchKinds \cup {"room-joined", "foo"}

\* event payloads: a JSON object with or without a 'type' entry ("null" when
\* absent), or a JSON value that is no object
Payloads ==
    { [isMap |-> TRUE, type |-> t] : t \in {"dynamic-update", "Home-Page", "null"} }
      \cup { [isMap |-> FALSE, type |-> "null"] }

\* update['type']?.toString().toLowerCase()
LowerType(type) == IF type = "Home-Page" THEN "home-page" ELSE type

\* listeners that forward every event, whatever its kind, as a dynamic update
UpdatesForAnyKind(kind, payload) == << [type |-> "dynamic-update"] >>

\* what the listeners registered by DynamicAppSync._setupSocketListeners add to
\* _updateController for one event: 'dynamic-update' forwards the payload itself
\* (Map.from throws on a payload that is no object), 'home-page' wraps it
UpdatesFor(kind, payload) ==
    CASE kind = "dynamic-update" ->
            IF payload.isMap THEN << [type |-> payload.type] >> ELSE <<>>
      [] kind = "home-page" -> << [type |-> "home-page"] >>
      [] OTHER -> <<>>

\* the switch of the listener of startRealTimeUpdates
TriggersReload(update) == LowerType(update.type) \in {"home-page", "dynamic-update"}

\* whether receiving the event makes the client call loadDynamicProductData
EventReloads(kind, payload) ==
    /\ subscribed
    /\ ~updatesClosed
    /\ UpdatesFor(kind, payload) /= <<>>
    /\ TriggersReload(UpdatesFor(kind, payload)[1])

(***************************************************************************)
(* AdminManager                                                            *)
(***************************************************************************)
\* _currentAdminId after AdminManager.getCurrentAdminId(): the cached id, or
\* ApiConfig.adminObjectId on the first call; it is also the value returned
CurrentAdminIdAfterGet(current) ==
    IF current /= "null" THEN current ELSE AdminObjectId

\* a setAdminId that stores its argument
CurrentAdminIdAssigned(current, adminId) == adminId

\* _currentAdminId after AdminManager.setAdminId(adminId), which only throws
CurrentAdminIdAfterSet(current, adminId) == current

\* the await of AdminManager.getCurrentAdminId() made by the loaders and by
\* startRealTimeUpdates
AwaitCurrentAdminId ==
    /\ currentAdminId' = CurrentAdminIdAfterGet(currentAdminId)
    /\ adminResult' = CurrentAdminIdAfterGet(currentAdminId)

(***************************************************************************)
(* Messages the realtime sockets emit                                      *)
(***************************************************************************)
\* adminId != null && adminId.isNotEmpty
IsNonEmptyId(adminId) == adminId /= "null" /\ adminId /= ""

\* emit('join-admin-room', {'adminId': adminId})
JoinAdminRoom(adminId) == [event |-> "join-admin-room", adminId |-> adminId]

\* emit('test-connection', {'adminId': adminId ?? 'default', ...})
TestConnection(adminId) ==
    [event |-> "test-connection",
     adminId |-> IF adminId = "null" THEN "default" ELSE adminId]

\* an onConnect that joins no room
AppOnConnectEmitsNothing(adminId) == {}

\* what the onConnect listener of DynamicAppSync emits
AppOnConnectEmits(adminId) ==
    IF IsNonEmptyId(adminId) THEN {JoinAdminRoom(adminId)} ELSE {}

\* what the onConnect listener of ApiService emits
ApiOnConnectEmits(adminId) ==
    (IF IsNonEmptyId(adminId) THEN {JoinAdminRoom(adminId)} ELSE {})
      \cup {TestConnection(adminId)}

\* DynamicAppSync.connect(adminId: adminId, apiBase: ...): nothing when a
\* connected socket is held; else _adminId is set and IO.io opens a new socket
\* with new listeners, the socket held before being neither closed nor stripped
\* of its listeners
AppSyncConnect(adminId) ==
    IF appIsConnected /\ appSocket /= "null"
    THEN UNCHANGED <<appSocket, appAdminId, appSent, appReconnected, appOrphans>>
    ELSE /\ appSocket /= "null" => Len(appOrphans) < MaxOrphans
         /\ appAdminId' = adminId
         /\ appSocket' = "connecting"
         /\ appSent' = {}
         /\ appReconnected' = FALSE
         /\ appOrphans' = IF appSocket = "null" THEN appOrphans
                          ELSE Append(appOrphans, appSocket)

(***************************************************************************)
(* Requests                                                                *)
(***************************************************************************)
\* a request in flight: initiation number, the loader that awaits it
\* ("products": loadDynamicProductData, "config": _loadDynamicAppConfig) and
\* what started it ("startup", "refresh", "event")
Fetch(seq, kind, trigger) == [seq |-> seq, kind |-> kind, trigger |-> trigger]

\* loadDynamicProductData up to its http.get
StartProductData(trigger) ==
    /\ nextSeq <= MaxFetches
    /\ AwaitCurrentAdminId
    /\ isLoading' = TRUE
    /\ errorMessage' = "null"
    /\ fetches' = fetches \cup {Fetch(nextSeq, "products", trigger)}
    /\ nextSeq' = nextSeq + 1

\* _loadDynamicData up to the http.get of _loadDynamicAppConfig
StartDynamicData(trigger) ==
    /\ nextSeq <= MaxFetches
    /\ AwaitCurrentAdminId
    /\ hpIsLoading' = TRUE
    /\ fetches' = fetches \cup {Fetch(nextSeq, "config", trigger)}
    /\ nextSeq' = nextSeq + 1

\* e.toString() of what loadDynamicProductData catches
ErrorText(resp) ==
    IF resp.thrown THEN "ClientException"
    ELSE IF resp.statusCode /= 200 THEN "Exception: HTTP 500"
    ELSE "Exception: Invalid response format"

\* _dynamicProductCards = extractedProducts.isNotEmpty ? extractedProducts : productCards
NewDynamicProductCards(doc, staticCards) ==
    IF ExtractedProducts(doc) /= <<>> THEN ExtractedProducts(doc) ELSE staticCards

(***************************************************************************)
(* Actions of the top-level state and of _HomePageState                    *)
(***************************************************************************)
\* the top-level initState: loadDynamicProductData(); startRealTimeUpdates()
InitState ==
    /\ ~started
    /\ started' = TRUE
    /\ StartProductData("startup")
    /\ AppSyncConnect(CurrentAdminIdAfterGet(currentAdminId))
    /\ subscribed' = TRUE
    /\ UNCHANGED <<productCards, appIsConnected, updatesClosed, homeSeq, prodSeq, lastEvent>>
    /\ UNCHANGED homeVars
    /\ UNCHANGED localVars
    /\ UNCHANGED <<apiVars, serverVars, helperVars>>

\* _HomePageState.initState
HomeInitState ==
    /\ ~hpStarted
    /\ hpStarted' = TRUE
    /\ dynamicProductCards' = productCards
    /\ filteredProducts' = productCards
    /\ StartDynamicData("startup")
    /\ UNCHANGED <<searchQuery, productQuantities, homeWidgets, dynamicStoreInfo,
                   dynamicDesignSettings, pageBackgroundColor, homeSeq, prodSeq, lastEvent>>
    /\ UNCHANGED globalVars
    /\ UNCHANGED syncVars
    /\ UNCHANGED localVars
    /\ UNCHANGED <<apiVars, serverVars, helperVars>>

\* RefreshIndicator.onRefresh: _loadDynamicData; the indicator is built only
\* when _isLoading is false
PullToRefresh ==
    /\ hpStarted
    /\ ~hpIsLoading
    /\ StartDynamicData("refresh")
    /\ UNCHANGED <<searchQuery, productQuantities, hpStarted, homeWidgets,
                   dynamicProductCards, filteredProducts, dynamicStoreInfo,
                   dynamicDesignSettings, pageBackgroundColor, homeSeq, prodSeq, lastEvent>>
    /\ UNCHANGED globalVars
    /\ UNCHANGED syncVars
    /\ UNCHANGED localVars
    /\ UNCHANGED <<apiVars, serverVars, helperVars>>

\* the search field's onChanged: _filterProducts(query)
FilterProducts(query) ==
    /\ hpStarted
    /\ ~hpIsLoading
    /\ searchQuery' = FilterQuery(query)
    /\ filteredProducts' = FilterList(query, dynamicProductCards)
    /\ UNCHANGED <<productQuantities, hpStarted, hpIsLoading, homeWidgets,
                   dynamicProductCards, dynamicStoreInfo, dynamicDesignSettings,
                   pageBackgroundColor>>
    /\ UNCHANGED globalVars
    /\ UNCHANGED syncVars
    /\ UNCHANGED netVars
    /\ UNCHANGED adminVars
    /\ UNCHANGED localVars
    /\ UNCHANGED <<apiVars, serverVars, helperVars>>

\* _getProductQuantity: _productQuantities[productId] ?? 1
GetProductQuantity(productId) ==
    IF productQuantities[productId] = 0 THEN 1 ELSE productQuantities[productId]

\* _incrementQuantity
IncrementQuantity(productId) ==
    /\ hpStarted
    /\ GetProductQuantity(productId) < CartCap
    /\ GetProductQuantity(productId) < MaxSelectQty
    /\ productQuantities' =
          [productQuantities EXCEPT ![productId] = GetProductQuantity(productId) + 1]
    /\ UNCHANGED <<searchQuery, hpStarted, hpIsLoading>>
    /\ UNCHANGED homeConfigVars
    /\ UNCHANGED globalVars
    /\ UNCHANGED syncVars
    /\ UNCHANGED netVars
    /\ UNCHANGED adminVars
    /\ UNCHANGED localVars
    /\ UNCHANGED <<apiVars, serverVars, helperVars>>

\* _decrementQuantity
DecrementQuantity(productId) ==
    /\ hpStarted
    /\ GetProductQuantity(productId) > 1
    /\ productQuantities' =
          [productQuantities EXCEPT ![productId] = GetProductQuantity(productId) - 1]
    /\ UNCHANGED <<searchQuery, hpStarted, hpIsLoading>>
    /\ UNCHANGED homeConfigVars
    /\ UNCHANGED globalVars
    /\ UNCHANGED syncVars
    /\ UNCHANGED netVars
    /\ UNCHANGED adminVars
    /\ UNCHANGED localVars
    /\ UNCHANGED <<apiVars, serverVars, helperVars>>

(***************************************************************************)
(* The DynamicAppSync socket                                               *)
(***************************************************************************)
\* the socket connects, at first or on an automatic reconnection: onConnect
SocketConnect ==
    /\ appSocket \in {"connecting", "disconnected"}
    /\ appSocket' = "connected"
    /\ appIsConnected' = TRUE
    /\ appSent' = appSent \cup AppOnConnectEmits(appAdminId)
    /\ appReconnected' = (appReconnected \/ appSocket = "disconnected")
    /\ UNCHANGED <<subscribed, updatesClosed, appAdminId, appOrphans>>
    /\ UNCHANGED adminVars
    /\ UNCHANGED netVars
    /\ UNCHANGED homeVars
    /\ UNCHANGED globalVars
    /\ UNCHANGED localVars
    /\ UNCHANGED <<apiVars, serverVars, helperVars>>

\* the transport drops: onDisconnect
SocketDisconnect ==
    /\ appSocket = "connected"
    /\ appSocket' = "disconnected"
    /\ appIsConnected' = FALSE
    /\ appSent' = {}
    /\ UNCHANGED <<subscribed, updatesClosed, appAdminId, appReconnected, appOrphans>>
    /\ UNCHANGED adminVars
    /\ UNCHANGED netVars
    /\ UNCHANGED homeVars
    /\ UNCHANGED globalVars
    /\ UNCHANGED localVars
    /\ UNCHANGED <<apiVars, serverVars, helperVars>>

\* the connected socket receives one event from the server
ReceiveEvent(kind, payload) ==
    /\ appSocket = "connected"
    /\ lastEvent' = kind
    /\ IF EventReloads(kind, payload)
       THEN StartProductData("event")
       ELSE UNCHANGED <<isLoading, errorMessage, fetches, nextSeq, adminVars>>
    /\ UNCHANGED <<started, productCards, homeSeq, prodSeq>>
    /\ UNCHANGED syncVars
    /\ UNCHANGED homeVars
    /\ UNCHANGED localVars
    /\ UNCHANGED <<apiVars, serverVars, helperVars>>

\* the adminId arguments of DynamicAppSync.connect and of
\* ApiService.initializeRealTimeUpdates / reconnectRealTimeUpdates
AdminIdInputs == {"null", "", AdminObjectId, "tenant-b"}

\* a call of DynamicAppSync.connect(adminId: adminId, apiBase: ...)
AppConnect(adminId) ==
    /\ AppSyncConnect(adminId)
    /\ UNCHANGED <<appIsConnected, subscribed, updatesClosed>>
    /\ UNCHANGED <<localVars, homeVars, globalVars, apiVars, adminVars, netVars, serverVars, helperVars>>

\* _socket of DynamicAppSync after disconnect(): the socket is closed by
\* _socket!.disconnect(), which ends its reconnection, and the field is null
AppSocketAfterDisconnect(socket) == "null"

\* a call of DynamicAppSync.disconnect()
AppDisconnect ==
    /\ appSocket' = AppSocketAfterDisconnect(appSocket)
    /\ appIsConnected' = FALSE
    /\ appSent' = {}
    /\ appReconnected' = FALSE
    /\ UNCHANGED <<subscribed, updatesClosed, appAdminId, appOrphans>>
    /\ UNCHANGED <<localVars, homeVars, globalVars, apiVars, adminVars, netVars, serverVars, helperVars>>

\* the top-level dispose: the subscription is cancelled and _appSync.dispose()
\* closes the socket and the _updateController of the one DynamicAppSync; the
\* State is gone, what it awaited can no longer change a mounted State, and
\* the next initState runs on a new State
Dispose ==
    /\ started
    /\ started' = FALSE
    /\ subscribed' = FALSE
    /\ appSocket' = AppSocketAfterDisconnect(appSocket)
    /\ appIsConnected' = FALSE
    /\ appSent' = {}
    /\ appReconnected' = FALSE
    /\ updatesClosed' = TRUE
    /\ productCards' = <<>>
    /\ isLoading' = TRUE
    /\ errorMessage' = "null"
    /\ fetches' = { f \in fetches : f.kind /= "products" }
    /\ UNCHANGED <<appAdminId, appOrphans, nextSeq, homeSeq, prodSeq, lastEvent>>
    /\ UNCHANGED <<localVars, homeVars, apiVars, adminVars, serverVars, helperVars>>

\* a socket DynamicAppSync no longer refers to connects (it reconnects by
\* itself as well): its onConnect listener sets _isConnected and emits on
\* _socket!, which throws when the field is null and is buffered by a socket
\* that is not connected
OrphanConnect(i) ==
    /\ i \in 1..Len(appOrphans)
    /\ appOrphans[i] \in {"connecting", "disconnected"}
    /\ appOrphans' = [appOrphans EXCEPT ![i] = "connected"]
    /\ appIsConnected' = TRUE
    /\ appSent' = IF appSocket = "null" THEN appSent
                  ELSE appSent \cup AppOnConnectEmits(appAdminId)
    /\ UNCHANGED <<appSocket, subscribed, updatesClosed, appAdminId, appReconnected>>
    /\ UNCHANGED <<localVars, homeVars, globalVars, apiVars, adminVars, netVars, serverVars, helperVars>>

\* the transport of such a socket drops: its onDisconnect listener
OrphanDisconnect(i) ==
    /\ i \in 1..Len(appOrphans)
    /\ appOrphans[i] = "connected"
    /\ appOrphans' = [appOrphans EXCEPT ![i] = "disconnected"]
    /\ appIsConnected' = FALSE
    /\ UNCHANGED <<appSocket, subscribed, updatesClosed, appAdminId, appSent, appReconnected>>
    /\ UNCHANGED <<localVars, homeVars, globalVars, apiVars, adminVars, netVars, serverVars, helperVars>>

(***************************************************************************)
(* The ApiService realtime socket                                          *)
(***************************************************************************)
\* the flag if socket.disconnect() ran no listener
ApiFlagKept(socket, isConnected) == isConnected

\* _socket!.disconnect() on the socket about to be replaced: the socket is
\* destroyed, and if it was connected its onDisconnect listener runs at once
ApiFlagAfterSocketDisconnect(socket, isConnected) ==
    IF socket = "connected" THEN FALSE ELSE isConnected

\* the body of initializeRealTimeUpdates(adminId: adminId): a socket held before
\* is closed (its onDisconnect listener runs if it was connected) and a new
\* socket is created, given listeners that capture adminId, and connected
ApiInitializeRealTimeUpdates(adminId) ==
    /\ apiIsConnected' = IF apiSocket /= "null"
                         THEN ApiFlagAfterSocketDisconnect(apiSocket, apiIsConnected)
                         ELSE apiIsConnected
    /\ apiReplaced' = (apiReplaced \/ apiSocket /= "null")
    /\ apiSocket' = "connecting"
    /\ apiAdminId' = adminId
    /\ apiSent' = {}
    /\ apiReconnected' = FALSE

\* a call of ApiService.initializeRealTimeUpdates(adminId: adminId)
ApiInitialize(adminId) ==
    /\ ApiInitializeRealTimeUpdates(adminId)
    /\ UNCHANGED apiPending
    /\ UNCHANGED <<localVars, homeVars, globalVars, syncVars, adminVars, netVars, serverVars, helperVars>>

\* the socket connects, at first or on an automatic reconnection: onConnect
ApiOnConnect ==
    /\ apiSocket \in {"connecting", "disconnected"}
    /\ apiSocket' = "connected"
    /\ apiIsConnected' = TRUE
    /\ apiSent' = apiSent \cup ApiOnConnectEmits(apiAdminId)
    /\ apiReconnected' = (apiReconnected \/ apiSocket = "disconnected")
    /\ UNCHANGED <<apiAdminId, apiReplaced, apiPending>>
    /\ UNCHANGED <<localVars, homeVars, globalVars, syncVars, adminVars, netVars, serverVars, helperVars>>

\* the transport drops: onDisconnect
ApiOnDisconnect ==
    /\ apiSocket = "connected"
    /\ apiSocket' = "disconnected"
    /\ apiIsConnected' = FALSE
    /\ apiSent' = {}
    /\ UNCHANGED <<apiAdminId, apiReconnected, apiReplaced, apiPending>>
    /\ UNCHANGED <<localVars, homeVars, globalVars, syncVars, adminVars, netVars, serverVars, helperVars>>

\* a connection attempt of the socket fails: onConnectError
ApiOnConnectError ==
    /\ apiSocket \in {"connecting", "disconnected"}
    /\ apiIsConnected' = FALSE
    /\ UNCHANGED <<apiSocket, apiAdminId, apiSent, apiReconnected, apiReplaced, apiPending>>
    /\ UNCHANGED <<localVars, homeVars, globalVars, syncVars, adminVars, netVars, serverVars, helperVars>>

\* disconnectRealTimeUpdates(): the socket, if any, is closed and dropped
ApiDisconnectRealTimeUpdates ==
    IF apiSocket /= "null"
    THEN /\ apiSocket' = "null"
         /\ apiIsConnected' = FALSE
         /\ apiSent' = {}
         /\ apiReconnected' = FALSE
         /\ UNCHANGED <<apiAdminId, apiReplaced>>
    ELSE UNCHANGED <<apiSocket, apiIsConnected, apiSent, apiReconnected, apiAdminId, apiReplaced>>

\* a call of ApiService.disconnectRealTimeUpdates() (also made by dispose)
ApiDisconnect ==
    /\ ApiDisconnectRealTimeUpdates
    /\ UNCHANGED apiPending
    /\ UNCHANGED <<localVars, homeVars, globalVars, syncVars, adminVars, netVars, serverVars, helperVars>>

\* reconnectRealTimeUpdates(adminId: adminId) up to its delay of one second
ApiReconnectStart(adminId) ==
    /\ Len(apiPending) < MaxPendingReconnects
    /\ ApiDisconnectRealTimeUpdates
    /\ apiPending' = Append(apiPending, adminId)
    /\ UNCHANGED <<localVars, homeVars, globalVars, syncVars, adminVars, netVars, serverVars, helperVars>>

\* the delay of a reconnectRealTimeUpdates is over: initializeRealTimeUpdates
ApiReconnectFinish ==
    /\ apiPending /= <<>>
    /\ ApiInitializeRealTimeUpdates(Head(apiPending))
    /\ apiPending' = Tail(apiPending)
    /\ UNCHANGED <<localVars, homeVars, globalVars, syncVars, adminVars, netVars, serverVars, helperVars>>

(***************************************************************************)
(* Calls of AdminManager                                                   *)
(***************************************************************************)
\* a call of AdminManager.getCurrentAdminId()
GetCurrentAdminId ==
    /\ AwaitCurrentAdminId
    /\ UNCHANGED <<localVars, homeVars, globalVars, syncVars, apiVars, netVars, serverVars, helperVars>>

\* a call of AdminManager.setAdminId(adminId): throws UnsupportedError
SetAdminId(adminId) ==
    /\ currentAdminId' = CurrentAdminIdAfterSet(currentAdminId, adminId)
    /\ adminResult' = "UnsupportedError"
    /\ UNCHANGED <<localVars, homeVars, globalVars, syncVars, apiVars, netVars, serverVars, helperVars>>

(***************************************************************************)
(* Responses                                                               *)
(***************************************************************************)
\* the rest of loadDynamicProductData, run when the response of f arrives
DeliverProductData(f, resp) ==
    /\ f \in fetches
    /\ f.kind = "products"
    /\ fetches' = fetches \ {f}
    /\ IF ProductDataAccepted(resp)
       THEN /\ productCards' = NewProducts(resp.doc)
            /\ isLoading' = FALSE
            /\ prodSeq' = f.seq
            /\ UNCHANGED errorMessage
       ELSE /\ errorMessage' = ErrorText(resp)
            /\ isLoading' = FALSE
            /\ UNCHANGED <<productCards, prodSeq>>
    /\ UNCHANGED <<started, nextSeq, homeSeq, lastEvent>>
    /\ UNCHANGED syncVars
    /\ UNCHANGED homeVars
    /\ UNCHANGED adminVars
    /\ UNCHANGED localVars
    /\ UNCHANGED <<apiVars, serverVars, helperVars>>

\* the rest of _loadDynamicAppConfig and of _loadDynamicData, run when the
\* response of f arrives
DeliverAppConfig(f, resp) ==
    /\ f \in fetches
    /\ f.kind = "config"
    /\ fetches' = fetches \ {f}
    /\ IF AppConfigAccepted(resp)
       THEN /\ dynamicProductCards' = NewDynamicProductCards(resp.doc, productCards)
            /\ searchQuery' = FilterQuery(ReappliedQuery(searchQuery))
            /\ filteredProducts' =
                  FilterList(ReappliedQuery(searchQuery),
                             NewDynamicProductCards(resp.doc, productCards))
            /\ homeWidgets' = SortHeaderFirst(ExtractedWidgets(resp.doc))
            /\ dynamicStoreInfo' = resp.doc.storeInfo
            /\ dynamicDesignSettings' = resp.doc.designSettings
            /\ pageBackgroundColor' = ColorFromHex(PageBackground(resp.doc))
            /\ homeSeq' = f.seq
       ELSE /\ UNCHANGED <<searchQuery, homeSeq>>
            /\ UNCHANGED homeConfigVars
    /\ hpIsLoading' = FALSE
    /\ UNCHANGED <<productQuantities, hpStarted, nextSeq, prodSeq, lastEvent>>
    /\ UNCHANGED globalVars
    /\ UNCHANGED syncVars
    /\ UNCHANGED adminVars
    /\ UNCHANGED localVars
    /\ UNCHANGED <<apiVars, serverVars, helperVars>>

(***************************************************************************)
(* PriceUtils.parsePrice.  A price string is a sequence of one-character   *)
(* strings; a double is a decimal number num / 10^scale without trailing   *)
(* zeros in its fraction.                                                  *)
(***************************************************************************)
Digits == {"0", "1", "5"}

\* the characters of the price strings
PriceChars == Digits \cup {"$", ".", "d"}

DigitValue(c) == CASE c = "0" -> 0 [] c = "1" -> 1 [] c = "5" -> 5

Amount(num, scale) == [num |-> num, scale |-> scale]

\* the double 0.0
Zero == Amount(0, 0)

\* the value of a sequence of digits
RECURSIVE DigitsValue(_)
DigitsValue(ds) ==
    IF ds = <<>> THEN 0
    ELSE DigitsValue(SubSeq(ds, 1, Len(ds) - 1)) * 10 + DigitValue(ds[Len(ds)])

RECURSIVE StripTrailingZeros(_)
StripTrailingZeros(ds) ==
    IF ds /= <<>> /\ ds[Len(ds)] = "0"
    THEN StripTrailingZeros(SubSeq(ds, 1, Len(ds) - 1))
    ELSE ds

IsDigits(str) == \A i \in 1..Len(str) : str[i] \in Digits

\* the position of the first '.', 0 when there is none
DotIndex(str) ==
    IF \E i \in 1..Len(str) : str[i] = "."
    THEN CHOOSE i \in 1..Len(str) : str[i] = "." /\ \A j \in 1..(i - 1) : str[j] /= "."
    ELSE 0

\* double.tryParse on strings of these characters: digits with an optional
\* '.' and fraction, or '.' followed by digits; <<>> stands for null and
\* <<d>> for the double d
TryParseDouble(str) ==
    LET k == DotIndex(str)
        whole == IF k = 0 THEN str ELSE SubSeq(str, 1, k - 1)
        frac == IF k = 0 THEN <<>> ELSE SubSeq(str, k + 1, Len(str))
    IN  IF /\ IsDigits(whole) /\ IsDigits(frac)
           /\ Len(whole) + Len(frac) >= 1
        THEN <<Amount(DigitsValue(whole \o StripTrailingZeros(frac)),
                      Len(StripTrailingZeros(frac)))>>
        ELSE <<>>

\* priceString.replaceAll(RegExp(r'[^d.]'), ''): the class [^d.] matches every
\* character but the letter d and '.', so only those two stay
KeptByPattern(c) == c \in {"d", "."}

\* PriceUtils.parsePrice
ParsePrice(priceString) ==
    IF priceString = <<>> THEN Zero
    ELSE LET numericString == SelectSeq(priceString, KeptByPattern)
         IN  IF TryParseDouble(numericString) = <<>> THEN Zero
             ELSE TryParseDouble(numericString)[1]

\* all strings of at most n characters
RECURSIVE StringsUpTo(_)
StringsUpTo(n) ==
    IF n = 0 THEN {<<>>}
    ELSE StringsUpTo(n - 1)
           \cup { Append(str, c) : str \in StringsUpTo(n - 1), c \in PriceChars }

\* a currency symbol followed by 10.50
DollarTenFifty == <<"$", "1", "0", ".", "5", "0">>

\* the strings handed to PriceUtils.parsePrice
PriceStrings == StringsUpTo(MaxPriceLen) \cup {DollarTenFifty}

\* a call of PriceUtils.parsePrice(priceString)
CallParsePrice(priceString) ==
    /\ priceCall' = [input |-> priceString, result |-> ParsePrice(priceString)]
    /\ UNCHANGED <<clientVarsButHelpers, serverVars, subscriptionCall, authVars>>

(***************************************************************************)
(* ApiService.hasActiveSubscription, as a function of the stored user id   *)
(* and of the two responses it reads.                                      *)
(***************************************************************************)
\* subscription['status']; "null" when the field is absent
SubscriptionStatuses == {"active", "Approved", "expired", "null"}

\* subscription['endDate'] ?? subscription['end_date'] against DateTime.now()
EndDates == {"absent", "future", "past", "unparseable"}

Subscriptions == [status : SubscriptionStatuses, endDate : EndDates]

\* status?.toString().toLowerCase()
StatusToLowerCase(status) == IF status = "Approved" THEN "approved" ELSE status

\* all lists of at most n subscriptions
RECURSIVE SubscriptionLists(_)
SubscriptionLists(n) ==
    IF n = 0 THEN {<<>>}
    ELSE SubscriptionLists(n - 1)
           \cup { Append(l, sub) : l \in SubscriptionLists(n - 1), sub \in Subscriptions }

\* get('/api/current-subscription'): the call throws, or answers with a status
\* code and, on 200, a body whose 'subscription' is null (<<>>) or a subscription
CurrentSubResponses ==
    {[throws |-> TRUE, statusCode |-> 0, subscription |-> <<>>]}
      \cup [throws : {FALSE}, statusCode : {404, 500}, subscription : {<<>>}]
      \cup [throws : {FALSE}, statusCode : {200}, subscription : SubscriptionLists(1)]

\* get('/api/user-subscriptions'): the call throws, or answers with a status
\* code and, on 200, a map with 'subscriptions', a list, or another body
UserSubscriptionsResponses ==
    {[throws |-> TRUE, statusCode |-> 0, format |-> "other", subscriptions |-> <<>>]}
      \cup [throws : {FALSE}, statusCode : {500}, format : {"other"}, subscriptions : {<<>>}]
      \cup [throws : {FALSE}, statusCode : {200}, format : {"other"}, subscriptions : {<<>>}]
      \cup [throws : {FALSE}, statusCode : {200}, format : {"map", "list"},
            subscriptions : SubscriptionLists(MaxSubscriptions)]

\* await _getUserId()
UserIds == {"null", "u1"}

\* the loop over the subscriptions: the first one that decides returns
RECURSIVE AnyActiveSubscription(_)
AnyActiveSubscription(subscriptions) ==
    IF subscriptions = <<>> THEN FALSE
    ELSE LET subscription == Head(subscriptions)
             status == StatusToLowerCase(subscription.status)
         IN  IF status = "active" \/ status = "approved"
             THEN IF subscription.endDate /= "absent"
                  THEN CASE subscription.endDate = "unparseable" -> TRUE
                         [] subscription.endDate = "future" -> TRUE
                         [] OTHER -> AnyActiveSubscription(Tail(subscriptions))
                  ELSE TRUE
             ELSE AnyActiveSubscription(Tail(subscriptions))

\* ApiService.hasActiveSubscription
HasActiveSubscription(userId, currentSubResponse, response) ==
    IF userId = "null" THEN FALSE
    ELSE IF currentSubResponse.throws THEN FALSE
    ELSE IF /\ currentSubResponse.statusCode = 200
            /\ currentSubResponse.subscription /= <<>>
            /\ StatusToLowerCase(currentSubResponse.subscription[1].status) = "active"
         THEN TRUE
    ELSE IF currentSubResponse.statusCode = 404 THEN FALSE
    ELSE IF response.throws THEN FALSE
    ELSE IF response.statusCode = 200
         THEN IF response.format = "other" THEN FALSE
              ELSE AnyActiveSubscription(response.subscriptions)
         ELSE FALSE

\* a call of ApiService.hasActiveSubscription() that will read the given user
\* id and responses
PendingSubscriptionCall(userId, currentSubResponse, response) ==
    [userId |-> userId, current |-> currentSubResponse, response |-> response,
     done |-> FALSE, result |-> FALSE]

\* the call of ApiService.hasActiveSubscription() runs to its return
CallHasActiveSubscription ==
    /\ ~subscriptionCall.done
    /\ subscriptionCall' =
          [subscriptionCall EXCEPT
             !.done = TRUE,
             !.result = HasActiveSubscription(subscriptionCall.userId,
                                              subscriptionCall.current,
                                              subscriptionCall.response)]
    /\ UNCHANGED <<clientVarsButHelpers, serverVars, priceCall, authVars>>

\* the sequence without its i-th element
RemoveAt(seq, i) == SubSeq(seq, 1, i - 1) \o SubSeq(seq, i + 1, Len(seq))

(***************************************************************************)
(* ApiService authentication.  login and register write 'auth_token', await *)
(* the write, then write 'user_id'; logout removes the two keys the same    *)
(* way; other calls run between the two writes.                            *)
(***************************************************************************)
\* the result of a call: which one, whether it returned, and the stored token
\* and user id when it was made
AuthOutcome(op, ok, tokenBefore, userIdBefore) ==
    [op |-> op, ok |-> ok, tokenBefore |-> tokenBefore, userIdBefore |-> userIdBefore]

\* a call between its two writes
AuthPending(op, userId, tokenBefore, userIdBefore) ==
    [op |-> op, userId |-> userId, tokenBefore |-> tokenBefore,
     userIdBefore |-> userIdBefore]

\* the status code that lets login (/api/signin) and register
\* (/api/create-account) store the session
SuccessStatus(op) == IF op = "login" THEN 200 ELSE 201

\* responses to /api/signin and /api/create-account: the request throws, or a
\* status code with data['token'] and data['user']['_id'] ?? data['user']['id']
\* ("null" when absent)
AuthResponses ==
    [thrown : {TRUE}, statusCode : {0}, token : {"null"}, userId : {"null"}]
      \cup [thrown : {FALSE}, statusCode : {200, 201, 401}, token : {"null", "t1"},
            userId : {"null", "u1"}]

\* whether login/register reaches its first write
FirstWriteReached(op, resp) ==
    ~resp.thrown /\ resp.statusCode = SuccessStatus(op) /\ resp.token /= "null"

\* login (op = "login") or register (op = "register") from the call to the
\* await of prefs.setString('auth_token', data['token'])
AuthStart(op, resp) ==
    /\ IF FirstWriteReached(op, resp)
       THEN /\ Len(authPending) < MaxAuthPending
            /\ authToken' = resp.token
            /\ authPending' =
                  Append(authPending, AuthPending(op, resp.userId, authToken, authUserId))
            /\ UNCHANGED authOutcome
       ELSE /\ authOutcome' = AuthOutcome(op, FALSE, authToken, authUserId)
            /\ UNCHANGED <<authToken, authPending>>
    /\ UNCHANGED <<authUserId, lastAuthEvent, requestsSent>>
    /\ UNCHANGED <<clientVarsButHelpers, serverVars, priceCall, subscriptionCall>>

\* the rest of login/register: prefs.setString('user_id', ...), which throws
\* when the response carries no user id, and return data
AuthFinish(i) ==
    /\ i \in 1..Len(authPending)
    /\ authPending[i].op \in {"login", "register"}
    /\ authPending' = RemoveAt(authPending, i)
    /\ IF authPending[i].userId = "null"
       THEN /\ authOutcome' = AuthOutcome(authPending[i].op, FALSE,
                                           authPending[i].tokenBefore,
                                           authPending[i].userIdBefore)
            /\ UNCHANGED <<authUserId, lastAuthEvent>>
       ELSE /\ authUserId' = authPending[i].userId
            /\ authOutcome' = AuthOutcome(authPending[i].op, TRUE,
                                           authPending[i].tokenBefore,
                                           authPending[i].userIdBefore)
            /\ lastAuthEvent' = "login"
    /\ UNCHANGED <<authToken, requestsSent>>
    /\ UNCHANGED <<clientVarsButHelpers, serverVars, priceCall, subscriptionCall>>

\* logout up to the await of prefs.remove('auth_token')
LogoutStart ==
    /\ Len(authPending) < MaxAuthPending
    /\ authToken' = "null"
    /\ authPending' = Append(authPending, AuthPending("logout", "null", authToken, authUserId))
    /\ UNCHANGED <<authUserId, authOutcome, lastAuthEvent, requestsSent>>
    /\ UNCHANGED <<clientVarsButHelpers, serverVars, priceCall, subscriptionCall>>

\* the rest of logout: prefs.remove('user_id')
LogoutFinish(i) ==
    /\ i \in 1..Len(authPending)
    /\ authPending[i].op = "logout"
    /\ authPending' = RemoveAt(authPending, i)
    /\ authUserId' = "null"
    /\ authOutcome' = AuthOutcome("logout", TRUE, authPending[i].tokenBefore,
                                  authPending[i].userIdBefore)
    /\ lastAuthEvent' = "logout"
    /\ UNCHANGED <<authToken, requestsSent>>
    /\ UNCHANGED <<clientVarsButHelpers, serverVars, priceCall, subscriptionCall>>

\* ApiService.isLoggedIn
IsLoggedIn == authToken /= "null"

\* the authenticated get/post/put/delete: they throw before any request when
\* _getToken() is null, else they send the request
RequestsAfter(token, sent) == IF token = "null" THEN sent ELSE sent + 1

\* a call of ApiService.get / post / put / delete
AuthenticatedRequest(method) ==
    /\ requestsSent < MaxRequests
    /\ requestsSent' = RequestsAfter(authToken, requestsSent)
    /\ UNCHANGED <<authToken, authUserId, authPending, authOutcome, lastAuthEvent>>
    /\ UNCHANGED <<clientVarsButHelpers, serverVars, priceCall, subscriptionCall>>

(***************************************************************************)
(* Backend (server.js): the cart of one user document.  JSON values of a   *)
(* request body keep their type, since the handler compares with ===.      *)
(***************************************************************************)
JsonString(text) == [type |-> "string", text |-> text]
JsonNumber(text) == [type |-> "number", text |-> text]

\* the productId values of the request bodies
SrvProductIdInputs == {JsonString("5"), JsonNumber("5"), JsonString("mug")}

\* the cast of the schema (productId: String) applied to what is stored
CastString(value) == JsonString(value.text)

\* user.cart.find(item => item.productId === productId): the index of the first
\* such line, 0 when there is none
SrvFind(lines, productId) ==
    IF \E i \in 1..Len(lines) : lines[i].productId = productId
    THEN CHOOSE i \in 1..Len(lines) :
            /\ lines[i].productId = productId
            /\ \A j \in 1..(i - 1) : lines[j].productId /= productId
    ELSE 0

\* the quantities the handlers in flight are going to add
RECURSIVE PendingQuantity(_)
PendingQuantity(handlers) ==
    IF handlers = <<>> THEN 0
    ELSE Head(handlers).quantity + PendingQuantity(Tail(handlers))

\* the price the request bodies carry for a product
SrvPriceOf(productId) == IF productId.text = "mug" THEN 250 ELSE 100

\* POST /api/users/:id/cart for the existing user, up to the end of
\* 'await User.findById': the handler holds the document it loaded
SrvCartFind(productId, quantity) ==
    /\ SumQuantity(srvCart) + PendingQuantity(srvHandlers) + quantity <= MaxSrvTotal
    /\ srvHandlers' = Append(srvHandlers,
                             [productId |-> productId, price |-> SrvPriceOf(productId),
                              quantity |-> quantity,
                              cart |-> srvCart, version |-> srvVersion])
    /\ UNCHANGED <<srvCart, srvVersion, srvOrders, srvOrderHandlers, srvResponse>>
    /\ UNCHANGED clientVars

\* the rest of the handler: find in the loaded document, then 'await user.save()'.
\* A push is saved as an append to the stored array and increments __v; a
\* changed quantity is saved as a set of cart.<index>.quantity, refused with a
\* VersionError (answer 500) when __v is no longer the one loaded
SrvCartSave(i) ==
    /\ i \in 1..Len(srvHandlers)
    /\ LET h == srvHandlers[i]
           existing == SrvFind(h.cart, h.productId)
       IN  IF existing /= 0
           THEN /\ srvCart' =
                     IF srvVersion = h.version
                     THEN [srvCart EXCEPT ![existing].quantity =
                                              h.cart[existing].quantity + h.quantity]
                     ELSE srvCart
                /\ UNCHANGED srvVersion
           ELSE /\ srvCart' = Append(srvCart,
                                     [productId |-> CastString(h.productId),
                                      price |-> h.price, quantity |-> h.quantity])
                /\ srvVersion' = srvVersion + 1
    /\ srvHandlers' = RemoveAt(srvHandlers, i)
    /\ UNCHANGED <<srvOrders, srvOrderHandlers, srvResponse>>
    /\ UNCHANGED clientVars

\* the user ids of the requests: the stored user and an id no document has
SrvUserIds == {"user", "unknown"}

\* a total that leaves the quantities out
RECURSIVE SrvTotalOfPrices(_)
SrvTotalOfPrices(lines) ==
    IF lines = <<>> THEN 0 ELSE Head(lines).price + SrvTotalOfPrices(Tail(lines))

\* user.cart.reduce((sum, item) => sum + (item.price * item.quantity), 0)
RECURSIVE SrvTotal(_)
SrvTotal(lines) ==
    IF lines = <<>> THEN 0
    ELSE SrvTotal(SubSeq(lines, 1, Len(lines) - 1))
           + lines[Len(lines)].price * lines[Len(lines)].quantity

\* user.cart.map(item => ({productId, name, price, quantity}))
SrvOrderProducts(lines) ==
    [i \in 1..Len(lines) |->
       [productId |-> lines[i].productId, price |-> lines[i].price,
        quantity |-> lines[i].quantity]]

\* the order built from the loaded cart
SrvOrder(lines) ==
    [products |-> SrvOrderProducts(lines), total |-> SrvTotal(lines), status |-> "pending"]

\* an answer of POST /api/users/:id/orders; the order is one without products
\* unless the status is 200
SrvAnswer(status, lines) == [status |-> status, order |-> SrvOrder(lines)]

\* POST /api/users/:id/orders up to the end of 'await User.findById': 404 for
\* an id no document has, else the handler holds the document it loaded
SrvOrderFind(userId) ==
    /\ IF userId = "user"
       THEN /\ Len(srvOrders) + Len(srvOrderHandlers) < MaxSrvOrders
            /\ srvOrderHandlers' =
                  Append(srvOrderHandlers, [cart |-> srvCart, version |-> srvVersion])
            /\ UNCHANGED srvResponse
       ELSE /\ srvResponse' = SrvAnswer(404, <<>>)
            /\ UNCHANGED srvOrderHandlers
    /\ UNCHANGED <<srvCart, srvVersion, srvHandlers, srvOrders>>
    /\ UNCHANGED clientVars

\* the rest of the handler: the order is built from the loaded cart, pushed,
\* the cart is set to [] and 'await user.save()'.  Setting a cart that had
\* lines is saved as a set of the whole array, refused with a VersionError
\* (answer 500) when __v is no longer the one loaded; a loaded cart that was
\* empty is not changed by the assignment and only the push is saved
SrvOrderSave(i) ==
    /\ i \in 1..Len(srvOrderHandlers)
    /\ LET h == srvOrderHandlers[i] IN
         IF h.cart /= <<>> /\ srvVersion /= h.version
         THEN /\ srvResponse' = SrvAnswer(500, <<>>)
              /\ UNCHANGED <<srvCart, srvVersion, srvOrders>>
         ELSE /\ srvOrders' = Append(srvOrders, SrvOrder(h.cart))
              /\ srvCart' = IF h.cart /= <<>> THEN <<>> ELSE srvCart
              /\ srvVersion' = srvVersion + 1
              /\ srvResponse' = SrvAnswer(200, h.cart)
    /\ srvOrderHandlers' = RemoveAt(srvOrderHandlers, i)
    /\ UNCHANGED srvHandlers
    /\ UNCHANGED clientVars

(***************************************************************************)
(* Specifications                                                          *)
(***************************************************************************)
InitProgram ==
    /\ cart = <<>>
    /\ wishlist = <<>>
    /\ cartOutcome = "ok"
    /\ cartNotificationCount = 0
    /\ gstPercentage = DefaultGstPercentage
    /\ lastCartCall = CartCall("none", FALSE)
    /\ searchQuery = <<>>
    /\ productQuantities = [id \in ProductIds |-> 0]
    /\ hpStarted = FALSE
    /\ hpIsLoading = TRUE
    /\ homeWidgets = <<>>
    /\ dynamicProductCards = <<>>
    /\ filteredProducts = <<>>
    /\ dynamicStoreInfo = "empty"
    /\ dynamicDesignSettings = "empty"
    /\ pageBackgroundColor = "white"
    /\ started = FALSE
    /\ productCards = <<>>
    /\ isLoading = TRUE
    /\ errorMessage = "null"
    /\ appSocket = "null"
    /\ appIsConnected = FALSE
    /\ subscribed = FALSE
    /\ updatesClosed = FALSE
    /\ appAdminId = "null"
    /\ appSent = {}
    /\ appReconnected = FALSE
    /\ appOrphans = <<>>
    /\ apiSocket = "null"
    /\ apiIsConnected = FALSE
    /\ apiAdminId = "null"
    /\ apiSent = {}
    /\ apiReconnected = FALSE
    /\ apiReplaced = FALSE
    /\ apiPending = <<>>
    /\ currentAdminId = "null"
    /\ adminResult = "none"
    /\ srvCart = <<>>
    /\ srvVersion = 0
    /\ srvHandlers = <<>>
    /\ srvOrders = <<>>
    /\ srvOrderHandlers = <<>>
    /\ srvResponse = SrvAnswer(0, <<>>)
    /\ fetches = {}
    /\ nextSeq = 1
    /\ homeSeq = 0
    /\ prodSeq = 0
    /\ lastEvent = "none"
    /\ authToken = "null"
    /\ authUserId = "null"
    /\ authPending = <<>>
    /\ authOutcome = AuthOutcome("none", TRUE, "null", "null")
    /\ lastAuthEvent = "none"
    /\ requestsSent = 0

\* no hasActiveSubscription call is under way
NoSubscriptionCall ==
    [userId |-> "null",
     current |-> [throws |-> TRUE, statusCode |-> 0, subscription |-> <<>>],
     response |-> [throws |-> TRUE, statusCode |-> 0, format |-> "other",
                   subscriptions |-> <<>>],
     done |-> TRUE, result |-> FALSE]

Init ==
    /\ InitProgram
    /\ priceCall = [input |-> <<>>, result |-> Zero]
    /\ subscriptionCall = NoSubscriptionCall

\* the program with one hasActiveSubscription call about to run
InitSubscription ==
    /\ InitProgram
    /\ priceCall = [input |-> <<>>, result |-> Zero]
    /\ \E userId \in UserIds, currentSubResponse \in CurrentSubResponses,
          response \in UserSubscriptionsResponses :
            subscriptionCall = PendingSubscriptionCall(userId, currentSubResponse, response)

\* the operations of CartManager and WishlistManager and the buttons of the
\* cart and wishlist pages
LocalNext ==
    \/ \E item \in CartItemInputs : AddItem(item, MaxCartTotal)
    \/ \E id \in ProductIds : RemoveItem(id)
    \/ \E id \in ProductIds, q \in QuantityInputs : UpdateQuantity(id, q, MaxCartTotal)
    \/ ClearCart
    \/ \E percentage \in GstInputs : UpdateGSTPercentage(percentage)
    \/ \E i \in 1..Len(cart) : CartIncrease(i)
    \/ \E i \in 1..Len(cart) : CartDecrease(i)
    \/ \E i \in 1..Len(wishlist) : WishlistMoveToCart(i, MaxCartTotal)
    \/ OpenCartTab
    \/ \E f \in ItemFields : WishlistAdd(f)
    \/ \E id \in ProductIds : WishlistRemove(id)
    \/ WishlistClearAll
    \/ \E f \in ItemFields : WishlistToggle(f)

\* the session-local stores alone
SpecLocal == Init /\ [][LocalNext]_vars

\* what the user types into the search field
Queries == {<<>>, <<"m">>}

\* the product whose card the user acts on while the configuration is synchronised
SyncFields == [id |-> "product_0", price |-> 1000, discountPrice |-> 0]

\* configuration loading and realtime updates
Next ==
    \/ InitState
    \/ HomeInitState
    \/ PullToRefresh
    \/ SocketConnect
    \/ SocketDisconnect
    \/ \E kind \in EventKinds, payload \in Payloads : ReceiveEvent(kind, payload)
    \/ \E f \in fetches, resp \in Responses : DeliverProductData(f, resp)
    \/ \E f \in fetches, resp \in Responses : DeliverAppConfig(f, resp)

Spec == Init /\ [][Next]_vars

\* calls of the authentication methods of ApiService
AuthNext ==
    \/ \E op \in {"login", "register"}, resp \in AuthResponses : AuthStart(op, resp)
    \/ \E i \in 1..Len(authPending) : AuthFinish(i)
    \/ LogoutStart
    \/ \E i \in 1..Len(authPending) : LogoutFinish(i)
    \/ \E method \in {"get", "post", "put", "delete"} : AuthenticatedRequest(method)

SpecAuth == Init /\ [][AuthNext]_vars

\* carts built from CartItems of any price
PricingNext ==
    \/ \E item \in PricedItemInputs : AddItem(item, MaxPricedTotal)
    \/ \E id \in ProductIds : RemoveItem(id)
    \/ ClearCart

SpecPricing == Init /\ [][PricingNext]_vars

\* the page is mounted, receives events, is disposed and mounted again
LifecycleNext ==
    \/ InitState
    \/ Dispose
    \/ SocketConnect
    \/ SocketDisconnect
    \/ \E kind \in EventKinds, payload \in Payloads : ReceiveEvent(kind, payload)
    \/ \E f \in fetches, resp \in Responses : DeliverProductData(f, resp)

SpecLifecycle == Init /\ [][LifecycleNext]_vars

\* configuration loading at startup and on pull-to-refresh, with a user who
\* searches, picks a quantity and fills cart and wishlist meanwhile
SessionNext ==
    \/ InitState
    \/ HomeInitState
    \/ PullToRefresh
    \/ \E q \in Queries : FilterProducts(q)
    \/ IncrementQuantity(SyncFields.id)
    \/ DecrementQuantity(SyncFields.id)
    \/ AddItem(CartItem(SyncFields, 1), MaxSyncCartTotal)
    \/ WishlistAdd(SyncFields)
    \/ \E f \in fetches, resp \in Responses : DeliverProductData(f, resp)
    \/ \E f \in fetches, resp \in Responses : DeliverAppConfig(f, resp)

SpecSession == Init /\ [][SessionNext]_vars

\* the adminIds AdminManager.setAdminId is called with
SetAdminIdInputs == {"other-admin"}

\* the two realtime channels driven through their methods, and AdminManager
ChannelNext ==
    \/ \E adminId \in AdminIdInputs : AppConnect(adminId)
    \/ SocketConnect
    \/ SocketDisconnect
    \/ AppDisconnect
    \/ \E i \in 1..Len(appOrphans) : OrphanConnect(i)
    \/ \E i \in 1..Len(appOrphans) : OrphanDisconnect(i)
    \/ \E adminId \in AdminIdInputs : ApiInitialize(adminId)
    \/ ApiOnConnect
    \/ ApiOnDisconnect
    \/ ApiOnConnectError
    \/ ApiDisconnect
    \/ \E adminId \in AdminIdInputs : ApiReconnectStart(adminId)
    \/ ApiReconnectFinish
    \/ GetCurrentAdminId
    \/ \E adminId \in SetAdminIdInputs : SetAdminId(adminId)

SpecChannel == Init /\ [][ChannelNext]_vars

\* calls of PriceUtils.parsePrice
PriceNext ==
    \E priceString \in PriceStrings : CallParsePrice(priceString)

SpecPrice == Init /\ [][PriceNext]_vars

\* calls of ApiService.hasActiveSubscription
SubscriptionNext == CallHasActiveSubscription

SpecSubscription == InitSubscription /\ [][SubscriptionNext]_vars

\* requests to the backend cart of one user, handled concurrently
ServerNext ==
    \/ \E productId \in SrvProductIdInputs, quantity \in 1..MaxSrvQty :
          SrvCartFind(productId, quantity)
    \/ \E i \in 1..Len(srvHandlers) : SrvCartSave(i)
    \/ \E userId \in SrvUserIds : SrvOrderFind(userId)
    \/ \E i \in 1..Len(srvOrderHandlers) : SrvOrderSave(i)

SpecServer == Init /\ [][ServerNext]_vars

(***************************************************************************)
(* What the home page shows (_buildHomePage)                               *)
(***************************************************************************)
HomePageView ==
    IF hpIsLoading THEN "loading"
    ELSE IF homeWidgets /= <<>> THEN "configured"
    ELSE "default-storefront"

\* the elements of a sequence
Range(seq) == { seq[i] : i \in 1..Len(seq) }

(***************************************************************************)
(* Claims                                                                  *)
(***************************************************************************)
\* a step of one of the add-to-cart operations
AddToCartStep ==
    \/ \E item \in CartItemInputs : AddItem(item, MaxCartTotal)
    \/ \E i \in 1..Len(wishlist) : WishlistMoveToCart(i, MaxCartTotal)
    \/ \E i \in 1..Len(cart) : CartIncrease(i)

\* C1: an add-to-cart operation (addItem, the wishlist's move to cart, the cart's
\* '+' button) never takes the aggregate quantity of a cart within the cap above
\* the cap of 10: the operation that would is rejected.
C1_AddNeverExceedsCap ==
    [][(AddToCartStep /\ TotalQuantity(cart) <= CartCap)
          => TotalQuantity(cart') <= CartCap]_vars

\* a response that makes a loader fail arrives for a request in flight
FailedDelivery ==
    \E f \in fetches, resp \in FailureResponses :
        DeliverAppConfig(f, resp) \/ DeliverProductData(f, resp)

\* C2: when a fetch fails after one has succeeded, the stored configuration stays
\* the one of the last successful fetch and an error flag is set.
C2_FailureKeepsConfigAndSetsError ==
    [][(FailedDelivery /\ (homeSeq /= 0 \/ prodSeq /= 0))
          => /\ UNCHANGED homeConfigVars
             /\ productCards' = productCards
             /\ errorMessage' /= "null"]_vars

\* C3: at most one refetch triggered by realtime events is in flight at a time.
C3_OneRefetchInFlight ==
    Cardinality({ f \in fetches : f.trigger = "event" }) <= 1

\* C4: the response of an earlier-initiated fetch never replaces what a
\* later-initiated fetch has stored.
C4_NoOverwriteByEarlierFetch ==
    [][homeSeq' >= homeSeq /\ prodSeq' >= prodSeq]_vars

\* a response, accepted or not, arrives for a request in flight
AnyDelivery ==
    \E f \in fetches, resp \in Responses :
        DeliverAppConfig(f, resp) \/ DeliverProductData(f, resp)

\* C5: a configuration replacement, successful or failed, leaves cart lines,
\* wishlist entries, the search query and the quantity selections as they were.
C5_ReplacementKeepsSessionState ==
    [][AnyDelivery => UNCHANGED sessionVars]_vars

\* C5 witness: a document has been stored while cart, wishlist, query and a
\* quantity selection were all set
C5_Witness ==
    /\ homeSeq /= 0
    /\ cart /= <<>>
    /\ wishlist /= <<>>
    /\ searchQuery /= <<>>
    /\ productQuantities[SyncFields.id] /= 0

\* the event kinds of the known set
KnownKinds == RefetchKinds \cup {"room-joined"}

\* C6: an event of a kind outside the known set issues no request and leaves
\* the stored configuration unchanged.
C6_UnknownKindIgnored ==
    [][\A kind \in EventKinds \ KnownKinds, payload \in Payloads :
          ReceiveEvent(kind, payload)
            => /\ fetches' = fetches
               /\ nextSeq' = nextSeq
               /\ UNCHANGED homeConfigVars
               /\ productCards' = productCards]_vars

\* C6 witness: the connected socket has received an event of kind foo
C6_Witness == lastEvent = "foo" /\ subscribed

\* C7: after every event of a kind of the allow-list, whatever its payload, a
\* refetch is in flight (issued by the event or already under way).
C7_AllowListedEventRefetches ==
    [][\A kind \in RefetchKinds, payload \in Payloads :
          ReceiveEvent(kind, payload) => fetches' /= {}]_vars

\* C8: while no configuration load has succeeded, the home page that has
\* finished loading never shows the default storefront.
C8_NoDefaultStorefront ==
    (hpStarted /\ homeSeq = 0 /\ ~hpIsLoading) => HomePageView /= "default-storefront"

\* C9: after a successful fetch the home widgets, product cards, store info and
\* design settings all come from the fetched document, also when it holds no
\* product cards.
C9_FullReplacement ==
    [][\A f \in fetches, d \in Docs :
          DeliverAppConfig(f, Ok(d))
            => /\ Range(dynamicProductCards') \subseteq Range(NewProducts(d))
               /\ Range(homeWidgets') \subseteq Range(ExtractedWidgets(d))
               /\ dynamicStoreInfo' = d.storeInfo
               /\ dynamicDesignSettings' = d.designSettings]_vars

\* C10: toggling the wishlist twice with the same product id gives back the
\* original membership, for every wishlist the manager can hold.
C10_ToggleTwice ==
    \A f \in ItemFields :
        Members(ToggleWishlist(ToggleWishlist(wishlist, WishlistItem(f)), WishlistItem(f)))
          = Members(wishlist)

\* C10 witness: a wishlist holding one product and lacking the other, so that
\* the toggle removes and re-adds the one and adds and removes the other
C10_Witness == Len(wishlist) = 1 /\ Members(wishlist) = {"product_1"}

\* no two entries of the list carry the same product id
UniqueIds(items) ==
    \A i, j \in 1..Len(items) : items[i].id = items[j].id => i = j

\* C11: after any sequence of WishlistManager operations (addItem, removeItem,
\* clear, clearWishlist) each product id appears at most once in the wishlist.
C11_WishlistIdsUnique == UniqueIds(wishlist)

\* C11 witness: the wishlist holds every product, so that each further addItem
\* is given an id that is already there
C11_Witness == Members(wishlist) = ProductIds /\ Len(wishlist) = Cardinality(ProductIds)

\* no two lines of the backend cart carry the same productId
UniqueProductIds(lines) ==
    \A i, j \in 1..Len(lines) : lines[i].productId = lines[j].productId => i = j

\* C12: after any sequence of add-to-cart operations each product id has at most
\* one cart line, in the client's CartManager and in the backend's user.cart.
C12_OneLinePerProduct == UniqueIds(cart) /\ UniqueProductIds(srvCart)

\* C13: CartManager.removeItem of an id that has no line succeeds and leaves the
\* cart unchanged, and removing the id once more after any removeItem changes
\* nothing further.
C13_RemoveIdempotent ==
    [][\A id \in ProductIds :
          RemoveItem(id)
            => /\ cartOutcome' = "ok"
               /\ IndexWhere(cart, id) = 0 => cart' = cart
               /\ CartRemoveItem(cart', id) = cart']_vars

\* C13 witness: removeItem has just been called with an id that had no line,
\* on a cart that holds a line
C13_Witness == lastCartCall = CartCall("removeItem", FALSE) /\ cart /= <<>>

\* C14: no cart line has a quantity of 0 or less: CartManager.updateQuantity
\* with such a quantity removes the line.
C14_NoNonPositiveLine == \A i \in 1..Len(cart) : cart[i].quantity > 0

\* C15: CartManager.updateQuantity of an existing line with a quantity above the
\* cap of 10 is rejected as CapacityExceeded and leaves the cart unchanged.
C15_UpdateAboveCapRejected ==
    [][\A id \in ProductIds, quantity \in QuantityInputs :
          (/\ quantity > CartCap
           /\ IndexWhere(cart, id) /= 0
           /\ UpdateQuantity(id, quantity, MaxCartTotal))
            => /\ cart' = cart
               /\ cartOutcome' = "CapacityExceeded"]_vars

\* the amount one line adds to the subtotal, and to the discount total, as the
\* price rules state them
LineAmount(line) ==
    IF line.discountPrice > 0 THEN line.discountPrice * line.quantity
    ELSE line.price * line.quantity
LineDiscount(line) ==
    IF line.discountPrice > 0 THEN (line.price - line.discountPrice) * line.quantity
    ELSE 0

\* the sums of these amounts over the first n lines
RECURSIVE SumLineAmounts(_, _)
SumLineAmounts(lines, n) ==
    IF n = 0 THEN 0 ELSE SumLineAmounts(lines, n - 1) + LineAmount(lines[n])
RECURSIVE SumLineDiscounts(_, _)
SumLineDiscounts(lines, n) ==
    IF n = 0 THEN 0 ELSE SumLineDiscounts(lines, n - 1) + LineDiscount(lines[n])

\* the cart [{10.00, 0, qty 2}, {20.00, 15.00, qty 1}], in cents
ExampleCart ==
    << [id |-> "product_0", price |-> 1000, discountPrice |-> 0, quantity |-> 2],
       [id |-> "product_1", price |-> 2000, discountPrice |-> 1500, quantity |-> 1] >>

\* C16: for every cart, subtotal is the sum over the lines of effectivePrice x
\* quantity, with effectivePrice = discountPrice if discountPrice > 0 else price,
\* and totalDiscount is the sum of (price - effectivePrice) x quantity; for the
\* example cart they are 35.00 and 5.00.
C16_SubtotalAndDiscount ==
    /\ Subtotal(cart) = SumLineAmounts(cart, Len(cart))
    /\ TotalDiscount(cart) = SumLineDiscounts(cart, Len(cart))
    /\ cart = ExampleCart => (Subtotal(cart) = 3500 /\ TotalDiscount(cart) = 500)

\* C16 witness: the cart of the example
C16_Witness == cart = ExampleCart

\* subtotal + subtotal x taxRate / 100
TotalAtRate(subtotal, taxRate) == subtotal + (subtotal * taxRate) \div 100

\* C17: finalTotal and totalWithTax both equal subtotal + tax, with tax =
\* subtotal x taxRate / 100 at the configured rate (default 18, changed only by
\* updateGSTPercentage); for subtotal 35.00 at the default rate the total is 41.30.
C17_TotalsUseConfiguredRate ==
    /\ FinalTotal(cart, gstPercentage) = TotalAtRate(Subtotal(cart), gstPercentage)
    /\ TotalWithTax(cart) = TotalAtRate(Subtotal(cart), gstPercentage)
    /\ (cart = ExampleCart /\ gstPercentage = DefaultGstPercentage)
          => (FinalTotal(cart, gstPercentage) = 4130 /\ TotalWithTax(cart) = 4130)

C19_ClosedStaysDisconnected ==
    /\ appSocket = "null" => ~appIsConnected
    /\ apiSocket = "null" => ~apiIsConnected

C21_WidgetOrderPreserved ==
    [][\A f \in fetches, d \in Docs :
          DeliverAppConfig(f, Ok(d)) => homeWidgets' = ExtractedWidgets(d)]_vars

\* the characters a pattern that keeps digits and '.' leaves in place
KeptByDigitClass(c) == c \in Digits \cup {"."}

\* the amount a price string contains: its digits and '.', read as a decimal
\* number; zero when they form none
ContainedAmount(str) ==
    IF TryParseDouble(SelectSeq(str, KeptByDigitClass)) = <<>> THEN Zero
    ELSE TryParseDouble(SelectSeq(str, KeptByDigitClass))[1]

\* C22: PriceUtils.parsePrice returns the numeric amount a raw price string
\* contains, whatever currency prefix it has (10.50 for a currency symbol
\* followed by 10.50), and zero for an empty string or one without a number.
C22_ParsePriceAmount ==
    /\ priceCall.result = ContainedAmount(priceCall.input)
    /\ priceCall.input = DollarTenFifty => priceCall.result = Amount(105, 1)

\* C23: no cart or wishlist operation raises an uncaught error; updateQuantity
\* with a product id that is not in the cart ends in a defined outcome.
C23_NoUncaughtError ==
    cartOutcome /= "StateError"

\* a subscription counts as active: status active or approved, and an end date
\* that is absent, in the future or unparseable
CountsAsActive(subscription) ==
    /\ StatusToLowerCase(subscription.status) \in {"active", "approved"}
    /\ subscription.endDate \in {"absent", "future", "unparseable"}

\* the subscriptions the last hasActiveSubscription call was given
SeenSubscriptions ==
    Range(subscriptionCall.current.subscription)
      \cup Range(subscriptionCall.response.subscriptions)

\* the last hasActiveSubscription call met no error
SubscriptionCallErrorFree ==
    /\ subscriptionCall.userId /= "null"
    /\ ~subscriptionCall.current.throws /\ subscriptionCall.current.statusCode = 200
    /\ ~subscriptionCall.response.throws /\ subscriptionCall.response.statusCode = 200
    /\ subscriptionCall.response.format /= "other"

\* C24: hasActiveSubscription answers true only when some subscription with
\* status active or approved has an end date that is absent, in the future or
\* unparseable, and answers true whenever one does and no error occurred.
C24_ActiveSubscription ==
    subscriptionCall.done =>
      /\ subscriptionCall.result => \E sub \in SeenSubscriptions : CountsAsActive(sub)
      /\ SubscriptionCallErrorFree /\ (\E sub \in SeenSubscriptions : CountsAsActive(sub))
           => subscriptionCall.result

SocketsWithListeners ==
    (IF appSocket = "null" THEN 0 ELSE 1) + Len(appOrphans)

\* C26: however often DynamicAppSync.connect is called, at most one socket
\* with registered listeners exists.
C26_AtMostOneListeningSocket ==
    SocketsWithListeners <= 1

\* C27: also after the DynamicAppSync singleton was disposed and connected
\* again, a home-page event received while the page listens is delivered to the
\* updates stream and starts a refetch.
C27_EventAfterDisposeRefetches ==
    [][\A payload \in Payloads :
          (subscribed /\ nextSeq <= MaxFetches /\ ReceiveEvent("home-page", payload))
             => \E f \in fetches' \ fetches : f.trigger = "event"]_vars

\* C28: in every cart built from CartItems whose price and discount price are
\* not negative, the effective price of each line is at most its price and
\* totalDiscount is not negative.
C28_DiscountNeverNegative ==
    (\A i \in 1..Len(cart) : cart[i].price >= 0 /\ cart[i].discountPrice >= 0)
      => /\ \A i \in 1..Len(cart) : EffectivePrice(cart[i]) <= cart[i].price
         /\ TotalDiscount(cart) >= 0

\* a login or register has just thrown
AuthCallFails ==
    /\ authOutcome' /= authOutcome
    /\ authOutcome'.op \in {"login", "register"}
    /\ ~authOutcome'.ok

\* C29: with no call in flight isLoggedIn is true exactly when the last
\* successful call was a login or register and not a logout; a login or
\* register that fails leaves the stored token and user id as they were when it
\* was called; get/post/put/delete send no request when no token is stored.
C29_AuthState ==
    /\ [](authPending = <<>> => (IsLoggedIn <=> lastAuthEvent = "login"))
    /\ [][AuthCallFails =>
             /\ authToken' = authOutcome'.tokenBefore
             /\ authUserId' = authOutcome'.userIdBefore]_vars
    /\ [][authToken = "null" => requestsSent' = requestsSent]_vars

\* the sum of price times quantity over the first n lines
RECURSIVE SumPriceTimesQuantity(_, _)
SumPriceTimesQuantity(lines, n) ==
    IF n = 0 THEN 0
    ELSE lines[n].price * lines[n].quantity + SumPriceTimesQuantity(lines, n - 1)

\* the lines of a cart as products of an order
CartLinesOf(lines, order) ==
    /\ Len(order.products) = Len(lines)
    /\ \A k \in 1..Len(lines) :
          /\ order.products[k].productId = lines[k].productId
          /\ order.products[k].price = lines[k].price
          /\ order.products[k].quantity = lines[k].quantity

====
